---- MODULE Spec2Model ----
(***************************************************************************)
(* LatticeVeil website maintenance scripts (src/Tools).                     *)
(*                                                                         *)
(*   create_vr_page.py     Page Generator: writes the A-Frame template to   *)
(*                         vr\index.html.                                   *)
(*   update_vr_preview.py  UI-preview injector for vr\index.html.           *)
(*   update_website_vr.py  site-integration injector for index.html.        *)
(*   final_polish.py       Content Scrubber for index.html.                 *)
(*                                                                         *)
(* A document is a sequence of text segments.  Every literal the scripts    *)
(* search for or insert is one segment (or a short sequence of segments, so *)
(* that a marker lying inside a fragment is visible); "\n" and "\r" are     *)
(* segments of their own because text-mode I/O and the scrubber treat them  *)
(* specially.  A file is a record: whether the path exists and its bytes.   *)
(***************************************************************************)
EXTENDS Integers, Sequences, FiniteSets, TLC

VARIABLES
  path,       \* which hardcoded target this document is: "vr" or "site"
  dirExists,  \* whether the parent directory of the target exists
  file,       \* [exists, data]: the target document on disk
  pc,         \* position of the one running script, "idle" between runs
  content,    \* the running script's in-memory copy (content / data)
  exitCode,   \* exit status of the last finished script, NoExit before any
  report,     \* what the last finished script printed
  log,        \* guarded insertions attempted by the current / last run
  pre,        \* the file as it was when the current / last run started
  last,       \* name of the last finished script, "none" before any
  again,      \* the current / last run started right after a run of the
              \* same script
  genRan,     \* create_vr_page.py has completed at least once
  base        \* the file as it was before the first run

vars == <<path, dirExists, file, pc, content, exitCode, report, log, pre,
          last, again, genRan, base>>

\* ---------------------------------------------------------------- bounds
MaxVrLen == 3
MaxSiteLen == 4
MaxScrubLen == 4

NoExit == -1

\* ------------------------------------------------------- string library
\* s[i .. i+Len(sub)-1] = sub
MatchAt(s, i, sub) ==
  /\ i + Len(sub) - 1 <= Len(s)
  /\ \A k \in 1..Len(sub) : s[i + k - 1] = sub[k]

\* Python: sub in s
Contains(s, sub) == \E i \in 1..(Len(s) + 1) : MatchAt(s, i, sub)

RECURSIVE ReplaceFrom(_, _, _, _)
ReplaceFrom(s, old, new, i) ==
  IF i > Len(s) THEN <<>>
  ELSE IF MatchAt(s, i, old)
       THEN new \o ReplaceFrom(s, old, new, i + Len(old))
       ELSE <<s[i]>> \o ReplaceFrom(s, old, new, i + 1)

\* Python: s.replace(old, new) for a non-empty old: every non-overlapping
\* occurrence, scanning left to right
Replace(s, old, new) == IF Contains(s, old) THEN ReplaceFrom(s, old, new, 1) ELSE s

RECURSIVE CountFrom(_, _, _)
CountFrom(s, sub, i) ==
  IF i > Len(s) THEN 0
  ELSE IF MatchAt(s, i, sub) THEN 1 + CountFrom(s, sub, i + Len(sub))
       ELSE CountFrom(s, sub, i + 1)

\* Python: s.count(sub)
Count(s, sub) == CountFrom(s, sub, 1)

\* all sequences over S of length at most n
SeqsUpTo(S, n) == UNION {[1..k -> S] : k \in 0..n}

\* ----------------------------------------------------------- filesystem
NoFile == [exists |-> FALSE, data |-> <<>>]
FileOf(bytes) == [exists |-> TRUE, data |-> bytes]

\* The hardcoded paths are Windows paths (C:\Users\...), so text-mode files
\* are written with the Windows line separator.
os_linesep == <<"\r", "\n">>

\* open(path, 'w', encoding='utf-8').write(s): every "\n" becomes os.linesep
WriteText(s) == Replace(s, <<"\n">>, os_linesep)

\* open(path, 'r', encoding='utf-8').read(): universal newlines, "\r\n" and
\* a lone "\r" both read as "\n"
ReadText(bytes) == Replace(Replace(bytes, <<"\r", "\n">>, <<"\n">>), <<"\r">>, <<"\n">>)

\* ------------------------------------------------- create_vr_page.py
\* the compiled-in template: one "</head>", one "<body>", neither preview
\* marker, "\n" line ends, ASCII only
html ==
  <<"<!DOCTYPE html>", "\n", "<html>", "\n", "<head>", "\n", "</head>", "\n",
    "<body>", "\n", "<a-scene>", "\n", "</body>", "\n", "</html>", "\n">>

StartGenerator ==
  /\ pc = "idle" /\ path = "vr"
  /\ pc' = "gen_makedirs"
  /\ pre' = file
  /\ content' = <<>> /\ log' = <<>>
  /\ again' = (last = "create_vr_page")
  /\ UNCHANGED <<path, dirExists, file, exitCode, report, last, genRan, base>>

\* os.makedirs(os.path.dirname(path), exist_ok=True)
GenMakedirs ==
  /\ pc = "gen_makedirs"
  /\ dirExists' = TRUE
  /\ pc' = "gen_open"
  /\ UNCHANGED <<path, file, content, exitCode, report, log, pre, last, genRan, again, base>>

\* GenOpen with the file opened in append mode ('a' for 'w')
GenOpen_Append ==
  /\ pc = "gen_open"
  /\ file' = (IF file.exists THEN file ELSE FileOf(<<>>))
  /\ pc' = "gen_write"
  /\ UNCHANGED <<path, dirExists, content, exitCode, report, log, pre, last, genRan, again, base>>

\* open(path, 'w', encoding='utf-8') creates or truncates the file
GenOpen ==
  /\ pc = "gen_open"
  /\ file' = FileOf(<<>>)
  /\ pc' = "gen_write"
  /\ UNCHANGED <<path, dirExists, content, exitCode, report, log, pre, last, genRan, again, base>>

\* f.write(html) and the close at the end of the with block: the text goes
\* in at the file position, the end of what open() left
GenWrite ==
  /\ pc = "gen_write"
  /\ file' = FileOf(file.data \o WriteText(html))
  /\ pc' = "gen_print"
  /\ UNCHANGED <<path, dirExists, content, exitCode, report, log, pre, last, genRan, again, base>>

\* print(f"Created {path}") and normal exit
GenPrint ==
  /\ pc = "gen_print"
  /\ report' = "Created"
  /\ exitCode' = 0
  /\ last' = "create_vr_page"
  /\ genRan' = TRUE
  /\ pc' = "idle"
  /\ UNCHANGED <<path, dirExists, file, content, log, pre, again, base>>

\* ----------------------------------------------- update_vr_preview.py
\* The text the script means to insert.  In the source both literals open
\* with a single double quote and run over several physical lines.
style_marker == <<"</head>">>
preview_style == <<"<style>", "\n", "#preview-ui", "{...}", "\n", "</style>", "\n">>
body_marker == <<"<body>">>
preview_html == <<"\n", "<div ", "id=\"preview-ui\"", ">", "\n", "PREVIEW MODE", "\n", "</div>">>

\* python update_vr_preview.py: the interpreter compiles the whole file
\* before it runs the first statement
StartPreview ==
  /\ pc = "idle" /\ path = "vr"
  /\ pc' = "prev_compile"
  /\ pre' = file
  /\ content' = <<>> /\ log' = <<>>
  /\ again' = (last = "update_vr_preview")
  /\ UNCHANGED <<path, dirExists, file, exitCode, report, last, genRan, base>>

\* Line 14 opens a string literal with one double quote and the line ends
\* before the closing quote: "SyntaxError: unterminated string literal".
\* No statement of the module runs (not the os.path.exists check, not the
\* read, not the write); the interpreter prints the error and exits with 1.
PrevSyntaxError ==
  /\ pc = "prev_compile"
  /\ report' = "SyntaxError"
  /\ exitCode' = 1
  /\ last' = "update_vr_preview"
  /\ pc' = "idle"
  /\ UNCHANGED <<path, dirExists, file, content, log, pre, genRan, again, base>>

\* ----------------------------------------------- update_website_vr.py
css_marker == <<"box-shadow: 4px 4px 0px #000; }">>
\* vr_style with the rule written as an attribute selector, button[id="vrIcon"]
vr_style_AttrSelector ==
  <<"\n", "button[", "id=\"vrIcon\"", "] {...}", "\n", "#vrIcon", ":hover {...}", "\n",
    "#vrIcon", " i {...}", "\n">>

vr_style ==
  <<"\n", "#vrIcon", " {...}", "\n", "#vrIcon", ":hover {...}", "\n",
    "#vrIcon", " i {...}", "\n">>
vr_html == <<"\n", "<button ", "id=\"vrIcon\"", " ...></button>", "\n">>
script_marker == <<"populateGalleries();">>
detection_js == <<"\n", "async function checkVR() {...}", "\n", "checkVR();", "\n", "syncTab();", "\n">>
log_marker == <<"<div id=\"log-website\" class=\"sub-content\">">>
new_log ==
  <<"\n", "<div class=\"log-entry\">", "<h3>New Feature: ", "WebXR VR Portal",
    "</h3>", "\n", "<strong>", "WebXR VR Portal", "</strong>", "\n", "</div>">>

\* if b'#vrIcon' not in data: data = data.replace(css_marker, css_marker + vr_style)
InsertCss(data) ==
  IF ~Contains(data, <<"#vrIcon">>)
  THEN Replace(data, css_marker, css_marker \o vr_style) ELSE data

\* InsertButton without its presence check
InsertButton_NoGuard(data) == Replace(data, body_marker, body_marker \o vr_html)

\* if b'id="vrIcon"' not in data: data = data.replace(body_marker, body_marker + vr_html)
InsertButton(data) ==
  IF ~Contains(data, <<"id=\"vrIcon\"">>)
  THEN Replace(data, body_marker, body_marker \o vr_html) ELSE data

\* if b'checkVR();' not in data: data = data.replace(script_marker, script_marker + detection_js)
InsertScript(data) ==
  IF ~Contains(data, <<"checkVR();">>)
  THEN Replace(data, script_marker, script_marker \o detection_js) ELSE data

\* InsertLog without its presence check
InsertLog_NoGuard(data) == Replace(data, log_marker, log_marker \o <<"\n">> \o new_log)

\* if b'WebXR VR Portal' not in data:
\*     data = data.replace(log_marker, log_marker + b'\n' + new_log.encode('utf-8'))
InsertLog(data) ==
  IF ~Contains(data, <<"WebXR VR Portal">>)
  THEN Replace(data, log_marker, log_marker \o <<"\n">> \o new_log) ELSE data

\* the four guarded insertions in program order: presence marker, anchor
SiteMarker == <<<<"#vrIcon">>, <<"id=\"vrIcon\"">>, <<"checkVR();">>, <<"WebXR VR Portal">>>>
SiteAnchor == <<css_marker, body_marker, script_marker, log_marker>>
SiteFragment == <<vr_style, vr_html, detection_js, <<"\n">> \o new_log>>

\* what one attempted insertion saw and did
Attempt(k, before, after) ==
  [ins |-> k,
   marker |-> Contains(before, SiteMarker[k]),
   anchor |-> Contains(before, SiteAnchor[k]),
   before |-> before,
   after |-> after]

StartSite ==
  /\ pc = "idle" /\ path = "site"
  /\ pc' = "site_read"
  /\ pre' = file
  /\ content' = <<>> /\ log' = <<>>
  /\ again' = (last = "update_website_vr")
  /\ UNCHANGED <<path, dirExists, file, exitCode, report, last, genRan, base>>

\* with open(path, 'rb') as f: data = f.read()
SiteRead ==
  /\ pc = "site_read" /\ file.exists
  /\ content' = file.data
  /\ pc' = "site_css"
  /\ UNCHANGED <<path, dirExists, file, exitCode, report, log, pre, last, genRan, again, base>>

\* open() of a missing file raises FileNotFoundError, which nothing catches
SiteReadFail ==
  /\ pc = "site_read" /\ ~file.exists
  /\ report' = "FileNotFoundError"
  /\ exitCode' = 1
  /\ last' = "update_website_vr"
  /\ pc' = "idle"
  /\ UNCHANGED <<path, dirExists, file, content, log, pre, genRan, again, base>>

SiteCss ==
  /\ pc = "site_css"
  /\ content' = InsertCss(content)
  /\ log' = Append(log, Attempt(1, content, content'))
  /\ pc' = "site_button"
  /\ UNCHANGED <<path, dirExists, file, exitCode, report, pre, last, genRan, again, base>>

SiteButton ==
  /\ pc = "site_button"
  /\ content' = InsertButton(content)
  /\ log' = Append(log, Attempt(2, content, content'))
  /\ pc' = "site_script"
  /\ UNCHANGED <<path, dirExists, file, exitCode, report, pre, last, genRan, again, base>>

SiteScript ==
  /\ pc = "site_script"
  /\ content' = InsertScript(content)
  /\ log' = Append(log, Attempt(3, content, content'))
  /\ pc' = "site_log"
  /\ UNCHANGED <<path, dirExists, file, exitCode, report, pre, last, genRan, again, base>>

SiteLog ==
  /\ pc = "site_log"
  /\ content' = InsertLog(content)
  /\ log' = Append(log, Attempt(4, content, content'))
  /\ pc' = "site_write"
  /\ UNCHANGED <<path, dirExists, file, exitCode, report, pre, last, genRan, again, base>>

\* with open(path, 'wb') as f: f.write(data)
SiteWrite ==
  /\ pc = "site_write"
  /\ file' = FileOf(content)
  /\ pc' = "site_print"
  /\ UNCHANGED <<path, dirExists, content, exitCode, report, log, pre, last, genRan, again, base>>

\* print("Updated index.html with VR button, detection, and devlog.")
SitePrint ==
  /\ pc = "site_print"
  /\ report' = "Updated"
  /\ exitCode' = 0
  /\ last' = "update_website_vr"
  /\ pc' = "idle"
  /\ UNCHANGED <<path, dirExists, file, content, log, pre, genRan, again, base>>

\* ------------------------------------------------------ specification
\* bytes a vr\index.html may hold before the first run
VrBytes == {"x", "\n", "\r", "</head>", "<body>", "#preview-ui", "id=\"preview-ui\""}

\* bytes an index.html may hold before the first run
SiteBytes ==
  {"x", "box-shadow: 4px 4px 0px #000; }", "<body>", "populateGalleries();",
   "<div id=\"log-website\" class=\"sub-content\">",
   "#vrIcon", "id=\"vrIcon\"", "checkVR();", "WebXR VR Portal"}

InitCommon ==
  /\ pc = "idle" /\ content = <<>> /\ exitCode = NoExit /\ report = ""
  /\ log = <<>> /\ last = "none" /\ again = FALSE /\ genRan = FALSE
  /\ pre = file /\ base = file

InitVr ==
  /\ path = "vr"
  /\ dirExists \in BOOLEAN
  /\ file \in {NoFile} \cup {FileOf(d) : d \in SeqsUpTo(VrBytes, MaxVrLen)}
  /\ (file.exists => dirExists)
  /\ InitCommon

InitSite ==
  /\ path = "site"
  /\ dirExists = TRUE
  /\ file \in {NoFile} \cup {FileOf(d) : d \in SeqsUpTo(SiteBytes, MaxSiteLen)}
  /\ InitCommon

Init == InitVr \/ InitSite

Next ==
  \/ StartGenerator \/ GenMakedirs \/ GenOpen \/ GenWrite \/ GenPrint
  \/ StartPreview \/ PrevSyntaxError
  \/ StartSite \/ SiteRead \/ SiteReadFail
  \/ SiteCss \/ SiteButton \/ SiteScript \/ SiteLog \/ SiteWrite \/ SitePrint

Spec == Init /\ [][Next]_vars

TypeOK ==
  /\ path \in {"vr", "site"}
  /\ dirExists \in BOOLEAN
  /\ file.exists \in BOOLEAN
  /\ exitCode \in {0, 1, NoExit}
  /\ Len(log) <= 4

\* ------------------------------------------------------ final_polish.py
\* Text of the scrubber is cut into segments of one character each, except
\* that a run of ASCII letters and digits is one segment; a character
\* outside ASCII is named by its code point.  The literals below are the
\* literals of the source file read as UTF-8, the encoding Python reads it in.

header_replacements ==
  <<
    [open |-> <<"<", "h3", ">">>,
     tail |-> <<"Infinite", " ", "Terrain", "<", "/", "h3", ">">>,
     repl |-> <<"<", "h3", ">", "U+0440", "U+045F", "U+040F", "U+201D", "U+043F", "U+0451", "U+040F", " ", "Infinite", " ", "Terrain", "<", "/", "h3", ">">>],
    [open |-> <<"<", "h3", ">">>,
     tail |-> <<"Greedy", " ", "Meshing", "<", "/", "h3", ">">>,
     repl |-> <<"<", "h3", ">", "U+0440", "U+045F", "U+040C", "U+00B1", " ", "Greedy", " ", "Meshing", "<", "/", "h3", ">">>],
    [open |-> <<"<", "h3", ">">>,
     tail |-> <<"EOS", " ", "Multiplayer", "<", "/", "h3", ">">>,
     repl |-> <<"<", "h3", ">", "U+0440", "U+045F", "U+0404", "U+0452", " ", "EOS", " ", "Multiplayer", "<", "/", "h3", ">">>],
    [open |-> <<"<", "h3", ">">>,
     tail |-> <<"Powered", " ", "by", " ", "GitHub", " ", "Pages", "<", "/", "h3", ">">>,
     repl |-> <<"<", "h3", ">", "U+0440", "U+045F", "U+0452", "U+2122", " ", "Powered", " ", "by", " ", "GitHub", " ", "Pages", "<", "/", "h3", ">">>],
    [open |-> <<"<", "h2", ">">>,
     tail |-> <<"The", " ", "Continuist", " ", "Papers", "<", "/", "h2", ">">>,
     repl |-> <<"<", "h2", ">", "U+0440", "U+045F", "U+201C", "U+045A", " ", "The", " ", "Continuist", " ", "Papers", "<", "/", "h2", ">">>],
    [open |-> <<"<", "h3", ">">>,
     tail |-> <<"Quick", " ", "Summary", "<", "/", "h3", ">">>,
     repl |-> <<"<", "h3", ">", "U+0440", "U+045F", "U+201D", "U+040C", " ", "Quick", " ", "Summary", "<", "/", "h3", ">">>],
    [open |-> <<"<", "h3", ">">>,
     tail |-> <<"Connect", " ", "with", " ", "Redacted", "<", "/", "h3", ">">>,
     repl |-> <<"<", "h3", ">", "U+0440", "U+045F", "U+201D", "U+2014", " ", "Connect", " ", "with", " ", "Redacted", "<", "/", "h3", ">">>],
    [open |-> <<"<", "h3", ">">>,
     tail |-> <<"Engine", ":", " ", "Three", ".", "js", " ", "Model", " ", "Inspector", "<", "/", "h3", ">">>,
     repl |-> <<"<", "h3", ">", "U+0440", "U+045F", "U+2022", "U+0407", "U+043F", "U+0451", "U+040F", " ", "Engine", ":", " ", "Three", ".", "js", " ", "Model", " ", "Inspector", "<", "/", "h3", ">">>]>>

scrub_map ==
  <<
    [bad |-> <<"U+0413", "U+045E", "U+0432", "U+201A", "U+00AC", "U+0432", "U+0402", "U+045C">>,
     good |-> <<"U+0432", "U+0402", "U+201D">>],
    [bad |-> <<"U+0413", "U+045E", "U+0432", "U+201A", "U+00AC", "U+0432", "U+0402", "U+045A">>,
     good |-> <<"U+0432", "U+0402", "U+201C">>],
    [bad |-> <<"U+0413", "U+045E", "U+0432", "U+201A", "U+00AC", "U+0415", "U+201C">>,
     good |-> <<"U+0432", "U+0402", "U+045A">>],
    [bad |-> <<"U+0413", "U+045E", "U+0432", "U+201A", "U+00AC", "U+0412", "U+045C">>,
     good |-> <<"U+0432", "U+0402", "U+045C">>],
    [bad |-> <<"U+0413", "U+045E", "U+0432", "U+201A", "U+00AC", "U+0432", "U+201E", "U+045E">>,
     good |-> <<"U+0432", "U+0402", "U+2122">>],
    [bad |-> <<"U+0413", "U+0453", "U+0412", "U+045E", "U+0413", "U+045E", "U+0082", "U+00AC", "U+009C">>,
     good |-> <<"U+0432", "U+0402", "U+045A">>],
    [bad |-> <<"U+0413", "U+0453", "U+0412", "U+045E", "U+0413", "U+045E", "U+0082", "U+00AC", "U+009D">>,
     good |-> <<"U+0432", "U+0402", "U+045C">>],
    [bad |-> <<"U+0413", "U+0453", "U+0412", "U+045E", "U+0413", "U+045E", "U+0082", "U+00AC", "U+0099">>,
     good |-> <<"U+0432", "U+0402", "U+2122">>],
    [bad |-> <<"U+0413", "U+0453", "U+0412", "U+045E", "U+0413", "U+045E", "U+0082", "U+00AC", "U+0094">>,
     good |-> <<"U+0432", "U+0402", "U+201D">>],
    [bad |-> <<"U+0413", "U+0453", "U+0412", "U+045E", "U+0413", "U+045E", "U+0082", "U+00AC", "U+0093">>,
     good |-> <<"U+0432", "U+0402", "U+201C">>],
    [bad |-> <<"U+0413", "U+045E", "U+0412", "U+0402", "U+0412", "U+201D">>,
     good |-> <<"U+0432", "U+0402", "U+201D">>],
    [bad |-> <<"U+0413", "U+045E", "U+0412", "U+0402", "U+0412", "U+201C">>,
     good |-> <<"U+0432", "U+0402", "U+201C">>],
    [bad |-> <<"U+0413", "U+045E", "U+0412", "U+0402", "U+0412", "U+2122">>,
     good |-> <<"U+0432", "U+0402", "U+2122">>],
    [bad |-> <<"U+0413", "U+045E", "U+0412", "U+0402", "U+0412", "U+045A">>,
     good |-> <<"U+0432", "U+0402", "U+045A">>],
    [bad |-> <<"U+0413", "U+045E", "U+0412", "U+0402", "U+0412", "U+045C">>,
     good |-> <<"U+0432", "U+0402", "U+045C">>],
    [bad |-> <<"U+0413", "U+0453", "U+0412", "U+00B0", "U+0413", "U+2026", "U+0412", "U+0451", "U+0413", "U+045E", "U+0080", "U+009C", "U+008C">>,
     good |-> <<"U+0440", "U+045F", "U+201C", "U+045A">>],
    [bad |-> <<"U+0413", "U+0453", "U+0412", "U+00B0", "U+0413", "U+2026", "U+0412", "U+0451", "U+0413", "U+045E", "U+0080", "U+009C", "U+0096">>,
     good |-> <<"U+0440", "U+045F", "U+201C", "U+2013">>],
    [bad |-> <<"U+0413", "U+0453", "U+0412", "U+00B0", "U+0413", "U+2026", "U+0412", "U+0451", "U+0413", "U+045E", "U+0080", "U+0094">>,
     good |-> <<"U+0440", "U+045F", "U+201D", "U+040C">>],
    [bad |-> <<"U+0413", "U+00B0", "U+0415", "U+0451", "U+0432", "U+0402", "U+045A", "U+0415", "U+201C">>,
     good |-> <<"U+0440", "U+045F", "U+201C", "U+045A">>],
    [bad |-> <<"U+0413", "U+00B0", "U+0415", "U+0451", "U+0432", "U+0402", "U+045A", "U+0432", "U+0402", "U+201C">>,
     good |-> <<"U+0440", "U+045F", "U+201C", "U+2013">>],
    [bad |-> <<"U+0413", "U+00B0", "U+0415", "U+0451", "U+0432", "U+0402", "U+201D", "U+0412", "U+0454">>,
     good |-> <<"U+0440", "U+045F", "U+2014", "U+0454", "U+043F", "U+0451", "U+040F">>],
    [bad |-> <<"U+0413", "U+00B0", "U+0415", "U+0451", "U+0432", "U+0402", "U+201C", "U+0412", "U+0458">>,
     good |-> <<"U+0440", "U+045F", "U+2013", "U+0458", "U+043F", "U+0451", "U+040F">>],
    [bad |-> <<"U+0413", "U+00B0", "U+0415", "U+0451", "U+0415", "U+040E", "U+0432", "U+201A", "U+00AC">>,
     good |-> <<"U+0440", "U+045F", "U+0459", "U+0402">>],
    [bad |-> <<"U+0413", "U+00B0", "U+0415", "U+0451", "U+0412", "U+0404", "U+0412", "U+0401">>,
     good |-> <<"U+0440", "U+045F", "U+0404", "U+0401">>],
    [bad |-> <<"U+0413", "U+00B0", "U+0415", "U+0451", "U+0432", "U+0402", "U+045A", "U+0415", "U+040E">>,
     good |-> <<"U+0440", "U+045F", "U+201C", "U+0459">>],
    [bad |-> <<"U+0413", "U+045E", "U+0415", "U+040E", "U+0432", "U+0402", "U+2122">>,
     good |-> <<"U+0432", "U+0459", "U+2019", "U+043F", "U+0451", "U+040F">>],
    [bad |-> <<"U+0413", "U+00B0", "U+0415", "U+0451", "U+0412", "U+00A7", "U+0412", "U+00B1">>,
     good |-> <<"U+0440", "U+045F", "U+00A7", "U+00B1">>],
    [bad |-> <<"U+0413", "U+00B0", "U+0415", "U+0451", "U+0432", "U+0402", "U+045C", "U+0432", "U+0402", "U+045B">>,
     good |-> <<"U+0440", "U+045F", "U+201D", "U+201E">>],
    [bad |-> <<"U+0413", "U+00B0", "U+0415", "U+0451", "U+0432", "U+0402", "U+045A", "U+0412", "U+00A6">>,
     good |-> <<"U+0440", "U+045F", "U+201C", "U+00A6">>],
    [bad |-> <<"U+0413", "U+00B0", "U+0415", "U+0451", "U+0415", "U+2019", "U+0412", "U+0452">>,
     good |-> <<"U+0440", "U+045F", "U+040A", "U+0452">>],
    [bad |-> <<"U+0413", "U+00B0", "U+0415", "U+0451", "U+0412", "U+0490", "U+0412", "U+0405">>,
     good |-> <<"U+0440", "U+045F", "U+0490", "U+0405">>],
    [bad |-> <<"U+0413", "U+00B0", "U+0415", "U+0451", "U+0432", "U+0402", "U+045A", "U+0412", "U+00B1">>,
     good |-> <<"U+0440", "U+045F", "U+201C", "U+00B1">>],
    [bad |-> <<"U+0413", "U+045E", "U+0415", "U+040E", "U+0432", "U+0402", "U+201C">>,
     good |-> <<"U+0432", "U+0459", "U+2013", "U+043F", "U+0451", "U+040F">>],
    [bad |-> <<"U+0413", "U+045E", "U+0432", "U+201E", "U+045E", "U+0412", "U+00BB">>,
     good |-> <<"U+0432", "U+2122", "U+00BB", "U+043F", "U+0451", "U+040F">>],
    [bad |-> <<"U+0413", "U+00B0", "U+0415", "U+0451", "U+0432", "U+0402", "U+045C">>,
     good |-> <<"U+0440", "U+045F", "U+2022", "U+0407", "U+043F", "U+0451", "U+040F">>],
    [bad |-> <<"U+0413", "U+00B0", "U+0415", "U+0451", "U+0432", "U+0402", "U+045C", "U+0412", "U+0490">>,
     good |-> <<"U+0440", "U+045F", "U+201D", "U+0490">>],
    [bad |-> <<"U+0413", "U+00B0", "U+0415", "U+0451", ".", "U+0432", "U+0402", "U+045C", "U+0432", "U+0402", "U+201D">>,
     good |-> <<"U+0440", "U+045F", "U+201D", "U+2014">>]>>

catchall_prefix_1 == <<"U+0413", "U+0453", "U+0416", "U+2019", "U+0413", "U+201A">>

catchall_prefix_2 == <<"U+0413", "U+0453">>

hyphen_fixes ==
  <<    [bad |-> <<"Stone", "U+0413", "U+045E", "U+0080", "U+0091", "Braced">>,
     good |-> <<"Stone", "-", "Braced">>],
    [bad |-> <<"Continuist", "U+0413", "U+045E", "U+0080", "U+0091", "era">>,
     good |-> <<"Continuist", "-", "era">>],
    [bad |-> <<"in", "U+0413", "U+045E", "U+0080", "U+0091", "game">>,
     good |-> <<"in", "-", "game">>]>>

utf8_table ==
  "U+0080" :> <<"0xC2", "0x80">> @@
  "U+0082" :> <<"0xC2", "0x82">> @@
  "U+0083" :> <<"0xC2", "0x83">> @@
  "U+008C" :> <<"0xC2", "0x8C">> @@
  "U+0091" :> <<"0xC2", "0x91">> @@
  "U+0093" :> <<"0xC2", "0x93">> @@
  "U+0094" :> <<"0xC2", "0x94">> @@
  "U+0096" :> <<"0xC2", "0x96">> @@
  "U+0099" :> <<"0xC2", "0x99">> @@
  "U+009C" :> <<"0xC2", "0x9C">> @@
  "U+009D" :> <<"0xC2", "0x9D">> @@
  "U+00A6" :> <<"0xC2", "0xA6">> @@
  "U+00A7" :> <<"0xC2", "0xA7">> @@
  "U+00AC" :> <<"0xC2", "0xAC">> @@
  "U+00B0" :> <<"0xC2", "0xB0">> @@
  "U+00B1" :> <<"0xC2", "0xB1">> @@
  "U+00BB" :> <<"0xC2", "0xBB">> @@
  "U+00C3" :> <<"0xC3", "0x83">> @@
  "U+0401" :> <<"0xD0", "0x81">> @@
  "U+0402" :> <<"0xD0", "0x82">> @@
  "U+0404" :> <<"0xD0", "0x84">> @@
  "U+0405" :> <<"0xD0", "0x85">> @@
  "U+0407" :> <<"0xD0", "0x87">> @@
  "U+040A" :> <<"0xD0", "0x8A">> @@
  "U+040C" :> <<"0xD0", "0x8C">> @@
  "U+040E" :> <<"0xD0", "0x8E">> @@
  "U+040F" :> <<"0xD0", "0x8F">> @@
  "U+0412" :> <<"0xD0", "0x92">> @@
  "U+0413" :> <<"0xD0", "0x93">> @@
  "U+0415" :> <<"0xD0", "0x95">> @@
  "U+0416" :> <<"0xD0", "0x96">> @@
  "U+0432" :> <<"0xD0", "0xB2">> @@
  "U+043F" :> <<"0xD0", "0xBF">> @@
  "U+0440" :> <<"0xD1", "0x80">> @@
  "U+0451" :> <<"0xD1", "0x91">> @@
  "U+0452" :> <<"0xD1", "0x92">> @@
  "U+0453" :> <<"0xD1", "0x93">> @@
  "U+0454" :> <<"0xD1", "0x94">> @@
  "U+0458" :> <<"0xD1", "0x98">> @@
  "U+0459" :> <<"0xD1", "0x99">> @@
  "U+045A" :> <<"0xD1", "0x9A">> @@
  "U+045B" :> <<"0xD1", "0x9B">> @@
  "U+045C" :> <<"0xD1", "0x9C">> @@
  "U+045E" :> <<"0xD1", "0x9E">> @@
  "U+045F" :> <<"0xD1", "0x9F">> @@
  "U+0490" :> <<"0xD2", "0x90">> @@
  "U+2013" :> <<"0xE2", "0x80", "0x93">> @@
  "U+2014" :> <<"0xE2", "0x80", "0x94">> @@
  "U+2019" :> <<"0xE2", "0x80", "0x99">> @@
  "U+201A" :> <<"0xE2", "0x80", "0x9A">> @@
  "U+201C" :> <<"0xE2", "0x80", "0x9C">> @@
  "U+201D" :> <<"0xE2", "0x80", "0x9D">> @@
  "U+201E" :> <<"0xE2", "0x80", "0x9E">> @@
  "U+2022" :> <<"0xE2", "0x80", "0xA2">> @@
  "U+2026" :> <<"0xE2", "0x80", "0xA6">> @@
  "U+2122" :> <<"0xE2", "0x84", "0xA2">>

word_len ==
  "Braced" :> 6 @@
  "Connect" :> 7 @@
  "Continuist" :> 10 @@
  "EOS" :> 3 @@
  "Engine" :> 6 @@
  "GitHub" :> 6 @@
  "Greedy" :> 6 @@
  "H3" :> 2 @@
  "Infinite" :> 8 @@
  "Inspector" :> 9 @@
  "Meshing" :> 7 @@
  "Model" :> 5 @@
  "Multiplayer" :> 11 @@
  "Pages" :> 5 @@
  "Papers" :> 6 @@
  "Powered" :> 7 @@
  "Quick" :> 5 @@
  "Redacted" :> 8 @@
  "Stone" :> 5 @@
  "Summary" :> 7 @@
  "Terrain" :> 7 @@
  "The" :> 3 @@
  "Three" :> 5 @@
  "by" :> 2 @@
  "era" :> 3 @@
  "function" :> 8 @@
  "game" :> 4 @@
  "h2" :> 2 @@
  "h3" :> 2 @@
  "in" :> 2 @@
  "js" :> 2 @@
  "openFaction" :> 11 @@
  "with" :> 4

latin1_high == {"U+0080", "U+0082", "U+0083", "U+008C", "U+0091", "U+0093", "U+0094", "U+0096", "U+0099", "U+009C", "U+009D", "U+00A6", "U+00A7", "U+00AC", "U+00B0", "U+00B1", "U+00BB", "U+00C3"}

lower_table ==
  "Braced" :> "braced" @@
  "Connect" :> "connect" @@
  "Continuist" :> "continuist" @@
  "EOS" :> "eos" @@
  "Engine" :> "engine" @@
  "GitHub" :> "github" @@
  "Greedy" :> "greedy" @@
  "H3" :> "h3" @@
  "Infinite" :> "infinite" @@
  "Inspector" :> "inspector" @@
  "Meshing" :> "meshing" @@
  "Model" :> "model" @@
  "Multiplayer" :> "multiplayer" @@
  "Pages" :> "pages" @@
  "Papers" :> "papers" @@
  "Powered" :> "powered" @@
  "Quick" :> "quick" @@
  "Redacted" :> "redacted" @@
  "Stone" :> "stone" @@
  "Summary" :> "summary" @@
  "Terrain" :> "terrain" @@
  "The" :> "the" @@
  "Three" :> "three" @@
  "openFaction" :> "openfaction"

\* bytes 0x80..0xFF that occur in the modelled documents, decoded as latin-1
latin1_table == "0xC3" :> "U+00C3" @@ "0x83" :> "U+0083"

\* data.decode('latin-1'): one character per byte, the same code
Latin1Char(b) == IF b \in DOMAIN latin1_table THEN latin1_table[b] ELSE b
decode_latin1(bytes) == [i \in 1..Len(bytes) |-> Latin1Char(bytes[i])]

RECURSIVE encode_utf8(_)
\* content.encode('utf-8'): ASCII unchanged, every other character becomes
\* its two or three bytes
encode_utf8(s) ==
  IF s = <<>> THEN <<>>
  ELSE (IF Head(s) \in DOMAIN utf8_table THEN utf8_table[Head(s)] ELSE <<Head(s)>>)
       \o encode_utf8(Tail(s))

\* number of characters in a segment
CharLen(t) == IF t \in DOMAIN word_len THEN word_len[t] ELSE 1

\* re.IGNORECASE on the ASCII letters of a segment
Lower(t) == IF t \in DOMAIN lower_table THEN lower_table[t] ELSE t

\* one pattern element against one segment: "." is the regex wildcard (any
\* character but "\n"), anything else is compared without case
PatElem(p, t) ==
  IF p = "." THEN t /= "\n" /\ CharLen(t) = 1 ELSE Lower(p) = Lower(t)

PatMatchAt(s, i, pat) ==
  /\ i + Len(pat) - 1 <= Len(s)
  /\ \A k \in 1..Len(pat) : PatElem(pat[k], s[i + k - 1])

\* content.replace('\r\n', '\n')
NormalizeCrlf(s) == Replace(s, <<"\r", "\n">>, <<"\n">>)

\* end of the run of "\n" that starts at i
RECURSIVE RunEnd(_, _)
RunEnd(s, i) == IF i < Len(s) /\ s[i + 1] = "\n" THEN RunEnd(s, i + 1) ELSE i

RECURSIVE CollapseFrom(_, _)
CollapseFrom(s, i) ==
  IF i > Len(s) THEN <<>>
  ELSE IF MatchAt(s, i, <<"\n", "\n", "\n">>)
       THEN <<"\n", "\n">> \o CollapseFrom(s, RunEnd(s, i) + 1)
       ELSE <<s[i]>> \o CollapseFrom(s, i + 1)

\* re.sub(r'\n{3,}', '\n\n', content)
CollapseNewlines(s) == CollapseFrom(s, 1)

\* r'<h3>.*?TAIL' matched with the opening tag at i: the first position
\* j at or after the tag where TAIL matches with no "\n" between the tag and
\* j; 0 when there is none
HeaderTailAt(s, h, i) ==
  LET from == i + Len(h.open)
      ok(j) == /\ PatMatchAt(s, j, h.tail)
               /\ \A k \in from..(j - 1) : s[k] /= "\n"
      js == {j \in from..Len(s) : ok(j)}
  IN IF js = {} THEN 0 ELSE CHOOSE j \in js : \A j2 \in js : j <= j2

RECURSIVE HeaderSubFrom(_, _, _)
HeaderSubFrom(s, h, i) ==
  LET j == HeaderTailAt(s, h, i)
  IN IF i > Len(s) THEN <<>>
     ELSE IF PatMatchAt(s, i, h.open) /\ j /= 0
          THEN h.repl \o HeaderSubFrom(s, h, j + Len(h.tail))
          ELSE <<s[i]>> \o HeaderSubFrom(s, h, i + 1)

\* re.sub(pattern, replacement, content, flags=re.IGNORECASE)
HeaderSub(s, h) == HeaderSubFrom(s, h, 1)

RECURSIVE ApplyHeaders(_, _)
\* for pattern, replacement in header_replacements: content = re.sub(...)
ApplyHeaders(s, k) ==
  IF k > Len(header_replacements) THEN s
  ELSE ApplyHeaders(HeaderSub(s, header_replacements[k]), k + 1)

RECURSIVE ApplyLiterals(_, _, _)
\* for bad, good in pairs: content = content.replace(bad, good)
ApplyLiterals(s, pairs, k) ==
  IF k > Len(pairs) THEN s
  ELSE ApplyLiterals(Replace(s, pairs[k].bad, pairs[k].good), pairs, k + 1)

\* regex \s and the two character classes of the catch-all patterns
IsSpace(t) == t \in {" ", "\n", "\r", "\t", "U+0085", "U+00A0"}
NotSpaceNotLt(t) == ~IsSpace(t) /\ t /= "<"
AlnumOrHigh(t) == t \in DOMAIN word_len \/ t \in latin1_high

\* end of the longest run of segments in [^\s<] that starts at i (i - 1 if
\* s[i] is not in the class)
RECURSIVE NotSpaceNotLtEnd(_, _)
NotSpaceNotLtEnd(s, i) ==
  IF i <= Len(s) /\ NotSpaceNotLt(s[i]) THEN NotSpaceNotLtEnd(s, i + 1) ELSE i - 1

\* the same for [A-Za-z0-9\x80-\xFF]
RECURSIVE AlnumOrHighEnd(_, _)
AlnumOrHighEnd(s, i) ==
  IF i <= Len(s) /\ AlnumOrHigh(s[i]) THEN AlnumOrHighEnd(s, i + 1) ELSE i - 1

RECURSIVE CharsIn(_, _, _)
CharsIn(s, i, j) == IF i > j THEN 0 ELSE CharLen(s[i]) + CharsIn(s, i + 1, j)

RECURSIVE CatchAll1From(_, _)
CatchAll1From(s, i) ==
  IF i > Len(s) THEN <<>>
  ELSE IF MatchAt(s, i, catchall_prefix_1)
       THEN CatchAll1From(s, NotSpaceNotLtEnd(s, i + Len(catchall_prefix_1)) + 1)
       ELSE <<s[i]>> \o CatchAll1From(s, i + 1)

\* re.sub(r'<prefix 1>[^\s<]*', '', content)
CatchAll1(s) == CatchAll1From(s, 1)

RECURSIVE CatchAll2From(_, _)
CatchAll2From(s, i) ==
  LET from == i + Len(catchall_prefix_2)
      to == AlnumOrHighEnd(s, from)
  IN IF i > Len(s) THEN <<>>
     ELSE IF MatchAt(s, i, catchall_prefix_2) /\ CharsIn(s, from, to) >= 2
          THEN CatchAll2From(s, to + 1)
          ELSE <<s[i]>> \o CatchAll2From(s, i + 1)

\* re.sub(r'<prefix 2>[A-Za-z0-9\x80-\xFF]{2,}', '', content)
CatchAll2(s) == CatchAll2From(s, 1)

ScrubUnchanged == UNCHANGED <<path, dirExists, exitCode, report, log, pre, last, genRan, again, base>>

\* with open(path, 'rb') as f: data = f.read(); content = data.decode('latin-1')
ScrubRead ==
  /\ pc = "scrub_read" /\ file.exists
  /\ content' = decode_latin1(file.data)
  /\ pc' = "scrub_crlf"
  /\ UNCHANGED file /\ ScrubUnchanged

ScrubReadFail ==
  /\ pc = "scrub_read" /\ ~file.exists
  /\ report' = "FileNotFoundError"
  /\ exitCode' = 1
  /\ last' = "final_polish"
  /\ pc' = "scrub_done"
  /\ UNCHANGED <<path, dirExists, file, content, log, pre, genRan, again, base>>

ScrubCrlf ==
  /\ pc = "scrub_crlf"
  /\ content' = NormalizeCrlf(content)
  /\ pc' = "scrub_collapse"
  /\ UNCHANGED file /\ ScrubUnchanged

ScrubCollapse ==
  /\ pc = "scrub_collapse"
  /\ content' = CollapseNewlines(content)
  /\ pc' = "scrub_headers"
  /\ UNCHANGED file /\ ScrubUnchanged

ScrubHeaders ==
  /\ pc = "scrub_headers"
  /\ content' = ApplyHeaders(content, 1)
  /\ pc' = "scrub_map"
  /\ UNCHANGED file /\ ScrubUnchanged

ScrubMap ==
  /\ pc = "scrub_map"
  /\ content' = ApplyLiterals(content, scrub_map, 1)
  /\ pc' = "scrub_catchall"
  /\ UNCHANGED file /\ ScrubUnchanged

ScrubCatchAll ==
  /\ pc = "scrub_catchall"
  /\ content' = CatchAll2(CatchAll1(content))
  /\ pc' = "scrub_hyphen"
  /\ UNCHANGED file /\ ScrubUnchanged

ScrubHyphen ==
  /\ pc = "scrub_hyphen"
  /\ content' = ApplyLiterals(content, hyphen_fixes, 1)
  /\ pc' = "scrub_dup"
  /\ UNCHANGED file /\ ScrubUnchanged

\* if content.count('function openFaction') > 1: ... pass
ScrubDup ==
  /\ pc = "scrub_dup"
  /\ content' = (IF Count(content, <<"function", " ", "openFaction">>) > 1
                 THEN content ELSE content)
  /\ pc' = "scrub_write"
  /\ UNCHANGED file /\ ScrubUnchanged

\* with open(path, 'wb') as f: f.write(content.encode('utf-8'))
ScrubWrite ==
  /\ pc = "scrub_write"
  /\ file' = FileOf(encode_utf8(content))
  /\ pc' = "scrub_print"
  /\ UNCHANGED content /\ ScrubUnchanged

\* print("Website fully restored and polished.")
ScrubPrint ==
  /\ pc = "scrub_print"
  /\ report' = "Website fully restored and polished."
  /\ exitCode' = 0
  /\ last' = "final_polish"
  /\ pc' = "scrub_done"
  /\ UNCHANGED <<path, dirExists, file, content, log, pre, genRan, again, base>>

\* pieces an index.html is put together from before the scrubber runs
ScrubPieces ==
  {<<"\r">>, <<"\n">>, <<"0xC3">>, <<"<", "h3", ">">>, <<"<", "H3", ">">>,
   <<"Infinite", " ", "Terrain", "<", "/", "h3", ">">>,
   <<"Greedy", " ", "Meshing", "<", "/", "h3", ">">>}

RECURSIVE Flatten(_)
Flatten(ps) == IF ps = <<>> THEN <<>> ELSE Head(ps) \o Flatten(Tail(ps))

InitScrub ==
  /\ path = "site"
  /\ dirExists = TRUE
  /\ file \in {NoFile} \cup {FileOf(Flatten(ps)) : ps \in SeqsUpTo(ScrubPieces, MaxScrubLen)}
  /\ pc = "scrub_read" /\ content = <<>> /\ exitCode = NoExit /\ report = ""
  /\ log = <<>> /\ last = "none" /\ again = FALSE /\ genRan = FALSE
  /\ pre = file /\ base = file

NextScrub ==
  \/ ScrubRead \/ ScrubReadFail \/ ScrubCrlf \/ ScrubCollapse \/ ScrubHeaders
  \/ ScrubMap \/ ScrubCatchAll \/ ScrubHyphen \/ ScrubDup \/ ScrubWrite
  \/ ScrubPrint

SpecScrub == InitScrub /\ [][NextScrub]_vars

\* ================================================================ claims
Injectors == {"update_vr_preview", "update_website_vr"}

\* the marker / the anchor of insertion k is in the document the run started on
MarkerSeeded(k) == Contains(pre.data, SiteMarker[k])
AnchorSeeded(k) == Contains(pre.data, SiteAnchor[k])

SiteRunDone == pc = "idle" /\ last = "update_website_vr" /\ exitCode = 0
PreviewRunDone == pc = "idle" /\ last = "update_vr_preview"

\* C1: a run of an injector that starts right after a run of the same
\* injector leaves the file byte for byte as it found it: run(run(d)) = run(d).
Idempotent ==
  (pc = "idle" /\ again /\ last \in Injectors) => file = pre

\* a second run of the site injector has finished on a document that the
\* first run changed
IdempotentWitness ==
  /\ SiteRunDone /\ again
  /\ base.exists /\ file /= base /\ file = pre

\* C2: an insertion whose marker is already in the input inserts nothing: its
\* step leaves the content as it was and the output holds no more copies of
\* its fragment than the input, whether or not its anchor is there; the same
\* for the two blocks of the UI-preview injector.
GuardCorrect ==
  /\ \A i \in 1..Len(log) :
       MarkerSeeded(log[i].ins) => log[i].after = log[i].before
  /\ SiteRunDone =>
       \A k \in 1..4 :
         MarkerSeeded(k) =>
           Count(file.data, SiteFragment[k]) = Count(pre.data, SiteFragment[k])
  /\ (PreviewRunDone /\ pre.exists /\ Contains(pre.data, <<"#preview-ui">>)) =>
       Count(file.data, <<"#preview-ui">>) = Count(pre.data, <<"#preview-ui">>)
  /\ (PreviewRunDone /\ pre.exists /\ Contains(pre.data, <<"id=\"preview-ui\"">>)) =>
       Count(file.data, <<"id=\"preview-ui\"">>) = Count(pre.data, <<"id=\"preview-ui\"">>)

\* a site run has finished on an input that held the marker of one insertion
\* next to that insertion's anchor, and another insertion of the run applied
GuardCorrectWitness ==
  /\ SiteRunDone
  /\ \E k \in 1..4 : MarkerSeeded(k) /\ AnchorSeeded(k)
  /\ file /= pre

\* C3 (as claimed): an insertion whose anchor is absent when it is attempted
\* leaves the content unchanged, and the run raises no error, attempts every
\* insertion and writes the file; for both injectors.
AnchorMissSafe ==
  /\ \A i \in 1..Len(log) : ~log[i].anchor => log[i].after = log[i].before
  /\ (pc = "idle" /\ last = "update_website_vr" /\ pre.exists) =>
       exitCode = 0 /\ Len(log) = 4 /\ file = FileOf(content)
  /\ (PreviewRunDone /\ pre.exists
        /\ (~Contains(pre.data, style_marker) \/ ~Contains(pre.data, body_marker))) =>
       exitCode = 0 /\ report = "Updated"

\* C4 (as claimed): after one or more runs of the UI-preview injector on an
\* existing document that held neither marker, the document holds exactly one
\* preview style block, right before "</head>", and exactly one preview
\* markup block, right after "<body>".
ExactlyOnceOverlay ==
  (PreviewRunDone /\ ~genRan /\ base.exists
     /\ ~Contains(base.data, <<"#preview-ui">>)
     /\ ~Contains(base.data, <<"id=\"preview-ui\"">>)) =>
    LET text == ReadText(file.data)
    IN /\ Count(text, preview_style) = 1
       /\ Count(text, preview_style \o style_marker) = 1
       /\ Count(text, preview_html) = 1
       /\ Count(text, body_marker \o preview_html) = 1

\* C5: whenever the Page Generator has just finished, the directory and the
\* file exist, reading the file back gives exactly the template (nothing of
\* the prior content is left), and a run right after another changes nothing.
GeneratorRoundTrip ==
  (pc = "idle" /\ last = "create_vr_page") =>
    /\ exitCode = 0
    /\ dirExists /\ file.exists
    /\ ReadText(file.data) = html
    /\ (again => file = pre)

\* the generator has run twice over a document that was not empty
GeneratorRoundTripWitness ==
  /\ pc = "idle" /\ last = "create_vr_page" /\ again
  /\ base.exists /\ base.data /= <<>>

\* C6 (as claimed): started on a missing document, the UI-preview injector
\* reports the missing file, exits with a non-zero status and leaves the
\* file absent.
MissingFileReported ==
  (PreviewRunDone /\ ~pre.exists) =>
    /\ report = "File not found"
    /\ exitCode /= 0
    /\ ~file.exists

\* the template with the preview style block before "</head>" and the preview
\* markup block after "<body>"
PatchedTemplate ==
  <<"<!DOCTYPE html>", "\n", "<html>", "\n", "<head>", "\n">>
    \o preview_style \o <<"</head>", "\n", "<body>">> \o preview_html
    \o <<"\n", "<a-scene>", "\n", "</body>", "\n", "</html>", "\n">>

\* C10 (as claimed): once the Page Generator has run, between runs the
\* document reads as the template or as the patched template; it reads as the
\* patched template after an injector run and as the template after a
\* generator run.
TwoValues ==
  (pc = "idle" /\ genRan) =>
    LET text == ReadText(file.data)
    IN /\ text \in {html, PatchedTemplate}
       /\ (last = "update_vr_preview" => text = PatchedTemplate)
       /\ (last = "create_vr_page" => text = html)

\* C9: every insertion of a site run sees its marker and its anchor exactly
\* as they are in the original input, and on an input with all four anchors
\* and none of the markers all four insertions apply.
AllAnchorsNoMarkers == \A k \in 1..4 : AnchorSeeded(k) /\ ~MarkerSeeded(k)

InsertionsIndependent ==
  /\ \A i \in 1..Len(log) :
       /\ log[i].marker = MarkerSeeded(log[i].ins)
       /\ log[i].anchor = AnchorSeeded(log[i].ins)
  /\ (SiteRunDone /\ AllAnchorsNoMarkers) =>
       \A k \in 1..4 :
         /\ log[k].after /= log[k].before
         /\ Contains(file.data, SiteAnchor[k] \o SiteFragment[k])

\* a site run has finished on an input with all four anchors and no marker
InsertionsIndependentWitness == SiteRunDone /\ AllAnchorsNoMarkers

ScrubRunDone == pc = "scrub_done" /\ exitCode = 0

\* the input holds "<h3>", then one or more junk bytes and nothing else, then
\* "Infinite Terrain</h3>"
HasJunkTerrainHeader(d) ==
  \E i \in 1..Len(d) : \E j \in (i + 4)..Len(d) :
    /\ MatchAt(d, i, header_replacements[1].open)
    /\ MatchAt(d, j, header_replacements[1].tail)
    /\ \A k \in (i + 3)..(j - 1) : d[k] = "0xC3"

\* C7 (as claimed): when the input holds <h3>JUNK Infinite Terrain</h3>, the
\* document the scrubber writes holds the canonical Infinite Terrain header
\* of step 3, verbatim.
HeaderCanonical ==
  (ScrubRunDone /\ HasJunkTerrainHeader(pre.data)) =>
    Contains(file.data, encode_utf8(header_replacements[1].repl))

\* C8 (as claimed): the document the scrubber writes has its line terminators
\* normalised to "\n" (no "\r\n" is left) and holds no run of three or more
\* "\n".
BlankLinesCollapsed ==
  ScrubRunDone =>
    /\ ~Contains(file.data, <<"\r", "\n">>)
    /\ ~Contains(file.data, <<"\n", "\n", "\n">>)

====
